---- MODULE Spec2Model ----
(***************************************************************************)
(* The grading pipeline of gradr-agent (app/agent.py): five agents run in  *)
(* sequence over one shared session state, the third of them a loop that   *)
(* applies the per-question grader to every question.  Every model call    *)
(* runs under the retry options of retry_config.  The reasoning backend is *)
(* an open environment: each call either answers (with well-formed or      *)
(* malformed text) or fails with an HTTP status code.                      *)
(***************************************************************************)
EXTENDS Integers, Sequences, FiniteSets, TLC

(* ------------------------------ bounds -------------------------------- *)

\* Largest number of questions in a run's input.
MaxQuestions == 2

\* Largest number of agent-as-tool invocations the graders make in one run.
MaxToolCalls == 1

(* ------------------------- retry_config ------------------------------- *)

attempts == 5

exp_base == 7

initial_delay == 1

http_status_codes == {429, 500, 503, 504}

\* A status code outside http_status_codes (a malformed request).
BadRequest == CHOOSE c \in 400..599 : c \notin http_status_codes

StatusCodes == http_status_codes \cup {BadRequest}

(* --------------------------- the agents ------------------------------- *)

sub_agents ==
    << "OnlineAnswersAgent", "SummarizerAgent", "LoopOverQuestions",
       "RefereeAgent", "FinalAggregator" >>

Stages == { sub_agents[k] : k \in 1..Len(sub_agents) }

sub_agent == "QuestionGraderAgent"

Agents == Stages \cup {sub_agent}

\* The agents that call the model themselves (the loop only drives its body).
LlmStages == Stages \ {"LoopOverQuestions"}

input_keys(a) ==
    CASE a = "OnlineAnswersAgent"  -> {}
      [] a = "SummarizerAgent"     -> {"online_answers"}
      [] a = "QuestionGraderAgent" ->
            {"question", "student_answer", "rubric", "final_summary",
             "external_evidence"}
      [] a = "LoopOverQuestions"   -> {"questions"}
      [] a = "RefereeAgent"        ->
            {"graded_questions", "rubric", "student_answers", "final_summary"}
      [] a = "FinalAggregator"     ->
            {"graded_questions", "referee_report", "human_decision"}

output_key(a) ==
    CASE a = "OnlineAnswersAgent"  -> "online_answers"
      [] a = "SummarizerAgent"     -> "final_summary"
      [] a = "QuestionGraderAgent" -> "graded_question"
      [] a = "LoopOverQuestions"   -> "graded_questions"
      [] a = "RefereeAgent"        -> "referee_report"
      [] a = "FinalAggregator"     -> "final_payload"

\* The agents the grader may invoke as tools (the code executor writes no key).
tools == {"OnlineAnswersAgent", "SummarizerAgent"}

Slots ==
    UNION { input_keys(a) : a \in Agents } \cup { output_key(a) : a \in Agents }
        \cup {"exam_id"}

\* Position of a stage in the pipeline.
StageIndex(s) == CHOOSE k \in 1..Len(sub_agents) : sub_agents[k] = s

(* ------------------------------ values -------------------------------- *)

Unset == [kind |-> "unset"]

\* Text of a model answer: json = TRUE when it is the JSON the prompt asks for.
Text(json) == [kind |-> "text", json |-> json]

List(items) == [kind |-> "list", items |-> items]

\* The rubric of parse_marking_guide.
max_score == 5

\* question_id of the k-th question: f"q{idx+1}" for idx = k - 1.
QuestionId(k) == << "q", k >>

Questions(n) == List([k \in 1..n |-> QuestionId(k)])

(* --------------------------- parse_questions -------------------------- *)

\* Longest raw text handed to parse_questions.
MaxChars == 4

\* The characters of a raw text: two letters, a blank, a line break.
Chars == {"a", "b", " ", "\n"}

Texts == UNION { [1..n -> Chars] : n \in 0..MaxChars }

\* parsed before the tool has been called.
NotCalled == [ok |-> FALSE, questions |-> << >>, count |-> -1]

RECURSIVE Split(_)
\* text.split("\n"): the pieces between line breaks, empty ones included.
Split(t) ==
    IF \A p \in 1..Len(t) : t[p] # "\n" THEN << t >>
    ELSE LET p == CHOOSE q \in 1..Len(t) :
                     t[q] = "\n" /\ \A r \in 1..(q - 1) : t[r] # "\n"
         IN  << SubSeq(t, 1, p - 1) >> \o Split(SubSeq(t, p + 1, Len(t)))

RECURSIVE Strip(_)
\* l.strip(): l without its leading and trailing whitespace.
Strip(l) ==
    IF l = << >> THEN l
    ELSE IF Head(l) = " " THEN Strip(Tail(l))
    ELSE IF l[Len(l)] = " " THEN Strip(SubSeq(l, 1, Len(l) - 1))
    ELSE l

\* Identifiers handed out before the blank lines are dropped.
parse_questions_numbering_all_lines(t) ==
    LET pieces == Split(t)
        Kept == { k \in 1..Len(pieces) : Strip(pieces[k]) # << >> }
        Nth(n) == CHOOSE k \in Kept : Cardinality({ j \in Kept : j <= k }) = n
        questions ==
            [n \in 1..Cardinality(Kept) |->
                [question_id |-> QuestionId(Nth(n)), text |-> Strip(pieces[Nth(n)])]]
    IN  [ok |-> TRUE, questions |-> questions, count |-> Len(questions)]

\* parse_questions(text): the stripped non-blank lines, numbered from q1.
parse_questions(t) ==
    LET pieces == Split(t)
        stripped == [k \in 1..Len(pieces) |-> Strip(pieces[k])]
        NonBlank(l) == l # << >>
        lines == SelectSeq(stripped, NonBlank)
        questions ==
            [idx \in 1..Len(lines) |->
                [question_id |-> QuestionId(idx), text |-> lines[idx]]]
    IN  [ok |-> TRUE, questions |-> questions, count |-> Len(questions)]

(* ------------------------- the retry controller ----------------------- *)

RECURSIVE Pow(_, _)
Pow(b, e) == IF e = 0 THEN 1 ELSE b * Pow(b, e - 1)

\* The record of one invocation of the model: attempts made so far, the delays
\* slept between them, and how it ended.  NoCall: no invocation is open.
NoCall == [made |-> 0, delays |-> << >>, status |-> "none", code |-> 0]

\* The exponent counted from the attempt number instead of from 0.
DelayFromOne(n) == initial_delay * Pow(exp_base, n)

\* Delay slept after the n-th failed attempt (n = 1 is the first retry).
Delay(n) == initial_delay * Pow(exp_base, n - 1)

\* A failure is retried when its code is listed and attempts remain.
ShouldRetry(c, code) == code \in http_status_codes /\ c.made + 1 < attempts

\* The call after one more attempt that failed with `code`.
Failed(c, code) ==
    IF ShouldRetry(c, code)
    THEN [c EXCEPT !.made = @ + 1, !.delays = Append(@, Delay(c.made + 1))]
    ELSE [c EXCEPT !.made = @ + 1, !.status = "terminal", !.code = code]

\* The call after an attempt that answered: the invocation is over and its
\* counter with it.
Answered(c) == NoCall

(* ------------------------------ state --------------------------------- *)

VARIABLES
    state,      \* the session state: slot -> value, Unset when never written
    pc,         \* stage -> "idle" | "running" | "done" | "failed"
    call,       \* the model invocation of the running top-level agent
    item,       \* per question: the grader's invocation for that question
    toolCalls,  \* agent-as-tool invocations made so far
    text,       \* the raw text handed to parse_questions
    parsed      \* what parse_questions returned for it

\* The state of the pipeline run, and that of the parsing tool.
runVars == << state, pc, call, item, toolCalls >>

toolVars == << text, parsed >>

vars == << runVars, toolVars >>

\* An invocation that starts from the attempts other invocations have used:
\* one counter shared by all calls.
NewCallOnSharedCounter ==
    LET used == {call.made} \cup { item[i].call.made : i \in DOMAIN item }
                            \cup { item[i].tcall.made : i \in DOMAIN item }
    IN  [made |-> CHOOSE m \in used : \A n \in used : n <= m,
         delays |-> << >>, status |-> "pending", code |-> 0]

\* A new invocation of the model: retry_options apply to it from the start.
NewCall == [made |-> 0, delays |-> << >>, status |-> "pending", code |-> 0]

NumQuestions == Len(state["questions"].items)

IdleItem ==
    [pc |-> "idle", call |-> NoCall, tool |-> "none", tcall |-> NoCall,
     result |-> Unset]

\* The run input: exam id, questions, student answers and rubric; a human
\* decision may or may not be supplied.
RunInput(n, human) ==
    [k \in Slots |->
        CASE k = "questions" -> Questions(n)
          [] k \in {"exam_id", "rubric", "student_answers"} -> Text(TRUE)
          [] k = "human_decision" /\ human -> Text(TRUE)
          [] OTHER -> Unset]

Init ==
    /\ \E n \in 0..MaxQuestions, human \in BOOLEAN : state = RunInput(n, human)
    /\ pc = [s \in Stages |-> "idle"]
    /\ call = NoCall
    /\ item = [k \in 1..NumQuestions |-> IdleItem]
    /\ toolCalls = 0
    /\ text = << >>
    /\ parsed = NotCalled

has(k) == state[k] # Unset

\* A run that goes on after an agent's error.
RunActiveDespiteError == TRUE

\* The run goes on until an error leaves an agent: nothing catches it.
RunActive == \A s \in Stages : pc[s] # "failed"

\* A sequence whose agents may start in any order.
IsNextInAnyOrder(s) == pc[s] = "idle"

\* A sequence that goes no further than a report that is not ok.
IsNextUnlessIssues(s) ==
    /\ pc[s] = "idle"
    /\ \A k \in 1..(StageIndex(s) - 1) : pc[sub_agents[k]] \in {"done", "failed"}
    /\ s = "FinalAggregator" =>
          IF state["referee_report"].kind = "report"
          THEN state["referee_report"].ok
          ELSE TRUE

\* The stage the sequence is at: every stage before it is over.
IsNext(s) ==
    /\ pc[s] = "idle"
    /\ \A k \in 1..(StageIndex(s) - 1) : pc[sub_agents[k]] \in {"done", "failed"}

\* A write that is lost.
PutLost(st, k, v) == st

\* state[k] = v: a later write replaces the value.
Put(st, k, v) == [st EXCEPT ![k] = v]

(* ----------------------- what the model may answer -------------------- *)

\* (score, confidence in tenths) of the grades the backend may give: one within
\* the rubric, one with score over max_score and confidence over 1.
GradeSamples == { <<0, 7>>, <<7, 12>> }

Graded(q, sc, cf) ==
    [kind |-> "graded", question_id |-> q, score |-> sc,
     max_score |-> max_score, confidence |-> cf]

\* JSON with an 'error' key: the grader found a required input missing.
ErrorEntry == [kind |-> "error"]

\* The grader's answers for the question at position i.
GraderResponses(i) ==
    { Graded(state["questions"].items[i], g[1], g[2]) : g \in GradeSamples }
        \cup {ErrorEntry, Text(FALSE)}

Min(a, b) == IF a < b THEN a ELSE b

Max(a, b) == IF a > b THEN a ELSE b

InBounds(e) ==
    /\ 0 <= e.score /\ e.score <= e.max_score
    /\ 0 <= e.confidence /\ e.confidence <= 10

\* An entry with no score > max_score and confidence between 0 and 1.
Clamp(e) ==
    IF e.kind = "graded"
    THEN [e EXCEPT !.score = Max(0, Min(@, e.max_score)),
                   !.confidence = Max(0, Min(@, 10))]
    ELSE e

Clamped(es) == [k \in 1..Len(es) |-> Clamp(es[k])]

RECURSIVE Issues(_)
\* One issue, naming the question, per graded entry out of bounds.
Issues(es) ==
    IF es = << >> THEN << >>
    ELSE LET rest == Issues(Tail(es))
             e == Head(es)
         IN  IF e.kind = "graded" /\ ~InBounds(e)
             THEN << e.question_id >> \o rest
             ELSE rest

Report(ok, issues, corrected) ==
    [kind |-> "report", ok |-> ok, issues |-> issues, corrected |-> corrected]

\* { 'ok': bool, 'issues': [...], 'corrected': [...] } as the referee's model
\* may fill it in: corrected entries or the entries as given, the problems
\* reported or not, either flag.
RefereeResponses ==
    LET es == state["graded_questions"].items
    IN  { Report(ok, is, co) :
            ok \in BOOLEAN, is \in {<< >>, Issues(es)}, co \in {es, Clamped(es)} }
            \cup {Text(FALSE)}

Responses(s) ==
    IF s = "RefereeAgent" THEN RefereeResponses ELSE {Text(TRUE), Text(FALSE)}

(* --------------------------- the sequence ----------------------------- *)

\* The sequence moves on to its next agent.
StartStage(s) ==
    /\ RunActive
    /\ IsNext(s)
    /\ pc' = [pc EXCEPT ![s] = "running"]
    /\ call' = IF s \in LlmStages THEN NewCall ELSE NoCall
    /\ UNCHANGED << state, item, toolCalls, toolVars >>

\* A referee whose report, when not ok, sends the questions back to the
\* graders.
StageAnswersThenRegrades(s) ==
    /\ RunActive
    /\ s \in LlmStages /\ pc[s] = "running"
    /\ \E v \in Responses(s) :
          /\ state' = Put(state, output_key(s), v)
          /\ IF s = "RefereeAgent" /\ v.kind = "report" /\ ~v.ok
             THEN /\ item' = [k \in DOMAIN item |-> IdleItem]
                  /\ pc' = [pc EXCEPT ![s] = "idle",
                                      !["LoopOverQuestions"] = "running"]
             ELSE /\ item' = item
                  /\ pc' = [pc EXCEPT ![s] = "done"]
    /\ call' = Answered(call)
    /\ UNCHANGED << toolCalls, toolVars >>

\* The agent's model call answers; the answer is saved under output_key.
StageAnswers(s) ==
    /\ RunActive
    /\ s \in LlmStages /\ pc[s] = "running"
    /\ \E v \in Responses(s) : state' = Put(state, output_key(s), v)
    /\ call' = Answered(call)
    /\ pc' = [pc EXCEPT ![s] = "done"]
    /\ UNCHANGED << item, toolCalls, toolVars >>

\* The agent's model call fails: retried under retry_config, else the error
\* leaves the agent and the sequence.
StageFails(s, code) ==
    /\ RunActive
    /\ s \in LlmStages /\ pc[s] = "running"
    /\ call' = Failed(call, code)
    /\ pc' = IF call'.status = "terminal" THEN [pc EXCEPT ![s] = "failed"] ELSE pc
    /\ UNCHANGED << state, item, toolCalls, toolVars >>

(* ----------------------------- the loop ------------------------------- *)

LoopRunning == RunActive /\ pc["LoopOverQuestions"] = "running"

\* The grader is applied to the question at position i.
StartItem(i) ==
    /\ LoopRunning
    /\ item[i].pc = "idle"
    /\ item' = [item EXCEPT ![i].pc = "calling", ![i].call = NewCall]
    /\ UNCHANGED << state, pc, call, toolCalls, toolVars >>

\* The grader's model call fails.
ItemFails(i, code) ==
    /\ LoopRunning
    /\ item[i].pc = "calling"
    /\ LET c == Failed(item[i].call, code)
       IN  IF c.status = "terminal"
           THEN /\ item' = [item EXCEPT ![i].call = c, ![i].pc = "failed"]
                /\ pc' = [pc EXCEPT !["LoopOverQuestions"] = "failed"]
           ELSE /\ item' = [item EXCEPT ![i].call = c]
                /\ pc' = pc
    /\ UNCHANGED << state, call, toolCalls, toolVars >>

\* The grader's model asks for one of its agent tools.
ItemCallsTool(i, t) ==
    /\ LoopRunning
    /\ item[i].pc = "calling"
    /\ t \in tools
    /\ toolCalls < MaxToolCalls
    /\ toolCalls' = toolCalls + 1
    /\ item' = [item EXCEPT ![i].pc = "tool", ![i].call = Answered(@),
                            ![i].tool = t, ![i].tcall = NewCall]
    /\ UNCHANGED << state, pc, call, toolVars >>

\* The tool agent's model call fails.
ToolFails(i, code) ==
    /\ LoopRunning
    /\ item[i].pc = "tool"
    /\ LET c == Failed(item[i].tcall, code)
       IN  IF c.status = "terminal"
           THEN /\ item' = [item EXCEPT ![i].tcall = c, ![i].pc = "failed"]
                /\ pc' = [pc EXCEPT !["LoopOverQuestions"] = "failed"]
           ELSE /\ item' = [item EXCEPT ![i].tcall = c]
                /\ pc' = pc
    /\ UNCHANGED << state, call, toolCalls, toolVars >>

\* The tool agent answers: its answer is saved under its own output_key and
\* the grader calls its model again.
ToolAnswers(i) ==
    /\ LoopRunning
    /\ item[i].pc = "tool"
    /\ \E v \in Responses(item[i].tool) :
          state' = Put(state, output_key(item[i].tool), v)
    /\ item' = [item EXCEPT ![i].pc = "calling", ![i].call = NewCall,
                            ![i].tool = "none", ![i].tcall = Answered(@)]
    /\ UNCHANGED << pc, call, toolCalls, toolVars >>

\* The grader answers for the question at position i.
ItemAnswers(i) ==
    /\ LoopRunning
    /\ item[i].pc = "calling"
    /\ \E v \in GraderResponses(i) :
          /\ state' = Put(state, output_key(sub_agent), v)
          /\ item' = [item EXCEPT ![i].pc = "done", ![i].call = Answered(@),
                                  ![i].result = v]
    /\ UNCHANGED << pc, call, toolCalls, toolVars >>

\* An output that leaves out the questions whose grader reported an error.
CollectGraded(its) ==
    LET all == [k \in 1..Len(its) |-> its[k].result]
        IsGrade(e) == e.kind # "error"
    IN  SelectSeq(all, IsGrade)

\* The loop's output: the graders' answers, by position of the question.
Collect(its) == [k \in 1..Len(its) |-> its[k].result]

\* Every question has its answer: the loop returns.
LoopCompletes ==
    /\ LoopRunning
    /\ \A i \in 1..NumQuestions : item[i].pc = "done"
    /\ state' = Put(state, output_key("LoopOverQuestions"),
                    List(Collect(item)))
    /\ pc' = [pc EXCEPT !["LoopOverQuestions"] = "done"]
    /\ UNCHANGED << call, item, toolCalls, toolVars >>

(* ------------------------------ the run ------------------------------- *)

Next ==
    \/ \E s \in Stages : StartStage(s)
    \/ \E s \in LlmStages : StageAnswers(s)
    \/ \E s \in LlmStages, code \in StatusCodes : StageFails(s, code)
    \/ \E i \in 1..NumQuestions : StartItem(i)
    \/ \E i \in 1..NumQuestions, code \in StatusCodes : ItemFails(i, code)
    \/ \E i \in 1..NumQuestions, t \in tools : ItemCallsTool(i, t)
    \/ \E i \in 1..NumQuestions, code \in StatusCodes : ToolFails(i, code)
    \/ \E i \in 1..NumQuestions : ToolAnswers(i)
    \/ \E i \in 1..NumQuestions : ItemAnswers(i)
    \/ LoopCompletes

Spec == Init /\ [][Next]_vars

(* ------------------------- the parsing tool --------------------------- *)

\* The tool is handed a raw text; no pipeline run is under way.
ParseInit ==
    /\ text \in Texts
    /\ parsed = NotCalled
    /\ state = RunInput(0, FALSE)
    /\ pc = [s \in Stages |-> "idle"]
    /\ call = NoCall
    /\ item = << >>
    /\ toolCalls = 0

\* parse_questions(text) returns.
ParseQuestions ==
    /\ parsed = NotCalled
    /\ parsed' = parse_questions(text)
    /\ UNCHANGED << text, runVars >>

ParseNext == ParseQuestions

ParseSpec == ParseInit /\ [][ParseNext]_vars

(* ------------------------------ claims -------------------------------- *)

Started(s) == pc[s] # "idle"

\* Every model invocation the state holds.
AllCalls ==
    {call} \cup { item[i].call : i \in 1..NumQuestions }
           \cup { item[i].tcall : i \in 1..NumQuestions }

RetrySchedule == << 1, 7, 49, 343 >>

\* C1: no stage of the sequence is invoked while one of its declared input
\* slots is unset.
C1_StageNeverRunsWithUnsetInput ==
    \A s \in Stages : Started(s) => \A k \in input_keys(s) : has(k)

C4_FailedItemDoesNotAbortLoop ==
    \A i \in 1..NumQuestions :
        item[i].pc = "failed" => pc["LoopOverQuestions"] # "failed"

C6_NonRetryableIsHardFailure ==
    /\ \A c \in AllCalls :
          (c.status = "terminal" /\ c.code \notin http_status_codes
              /\ c.delays = << >>) => c.made = 1
    /\ \A a \in Agents : state[output_key(a)] # Text(FALSE)

\* C7: every graded entry of the referee's corrected list has
\* 0 <= score <= max_score and 0 <= confidence <= 1.
C7_CorrectedWithinBounds ==
    LET r == state["referee_report"]
    IN  r.kind = "report" =>
            \A k \in 1..Len(r.corrected) :
                r.corrected[k].kind = "graded" => InBounds(r.corrected[k])

\* C8: the referee's report has ok = (issues is empty), one issue per entry
\* out of bounds, and that entry clamped.
C8_ReportOkIffNoIssues ==
    LET r == state["referee_report"]
        es == state["graded_questions"].items
    IN  r.kind = "report" =>
            /\ r.ok = (r.issues = << >>)
            /\ r.issues = Issues(es)
            /\ r.corrected = Clamped(es)

\* C9: a slot that is set keeps its value for the rest of the run.
C9_SlotsWrittenOnce ==
    [][\A k \in Slots : has(k) => state'[k] = state[k]]_vars

\* C10: after a stage has failed no later stage is started, final_payload is
\* not set, and the session state stays as it was at the failure.
C10_FailureAbortsRun ==
    /\ [](\A s \in Stages :
            pc[s] = "failed" =>
                /\ ~has("final_payload")
                /\ \A k \in (StageIndex(s) + 1)..Len(sub_agents) :
                      pc[sub_agents[k]] = "idle")
    /\ [][(\E s \in Stages : pc[s] = "failed") =>
            (state' = state /\ pc' = pc)]_vars

\* C10 witness: the referee has failed after the loop returned.
C10_Witness ==
    /\ pc["RefereeAgent"] = "failed"
    /\ pc["LoopOverQuestions"] = "done"
    /\ has("graded_questions")

\* C11: a run that is over has ended in exactly one of two outcomes: a
\* complete final payload, or the terminal error of one failed stage.
C11_RunEndsInPayloadOrError ==
    LET Aborted == \E s \in Stages : pc[s] = "failed"
        Completed ==
            pc["FinalAggregator"] = "done" /\ state["final_payload"] = Text(TRUE)
    IN  (pc["FinalAggregator"] = "done" \/ Aborted) =>
            /\ Completed # Aborted
            /\ Cardinality({ s \in Stages : pc[s] = "failed" }) <= 1

\* C12: the aggregator makes no external call and no retry: while it runs no
\* model invocation is open, and it never ends in a failed call.
C12_AggregatorMakesNoCall ==
    /\ pc["FinalAggregator"] = "running" => call.status = "none"
    /\ pc["FinalAggregator"] # "failed"

\* C13: a report that is not ok does not end the run: the referee has
\* returned, the aggregator is the next to start, it fails only by its own
\* model call, and when it returns final_payload is set beside the report.
C13_ReportNotOkIsNotFatal ==
    LET r == state["referee_report"]
    IN  (r.kind = "report" /\ ~r.ok) =>
            /\ pc["RefereeAgent"] = "done"
            /\ pc["FinalAggregator"] = "idle" =>
                  ENABLED StartStage("FinalAggregator")
            /\ pc["FinalAggregator"] = "failed" => call.status = "terminal"
            /\ pc["FinalAggregator"] = "done" => has("final_payload")

\* C13 witness: the run is complete with a report that lists an issue.
C13_Witness ==
    /\ state["referee_report"].kind = "report"
    /\ ~state["referee_report"].ok
    /\ state["referee_report"].issues # << >>
    /\ pc["FinalAggregator"] = "done"
    /\ has("final_payload")

\* C15: at most one stage of the sequence is running, a stage has started only
\* if the stage before it in the list has returned, the referee only if every
\* question has its grader's answer, the aggregator only if referee_report is
\* set.
C15_StagesOneAtATimeInOrder ==
    /\ Cardinality({ s \in Stages : pc[s] = "running" }) <= 1
    /\ \A k \in 2..Len(sub_agents) :
          Started(sub_agents[k]) => pc[sub_agents[k - 1]] = "done"
    /\ Started("RefereeAgent") =>
          \A i \in 1..NumQuestions :
              item[i].pc = "done" /\ item[i].result # Unset
    /\ Started("FinalAggregator") => has("referee_report")

\* C15 witness: the last stage is running after two questions were graded.
C15_Witness ==
    /\ pc["FinalAggregator"] = "running"
    /\ NumQuestions = 2
    /\ \A k \in 1..(Len(sub_agents) - 1) : pc[sub_agents[k]] = "done"

\* C16: from the start of the loop until every question is answered the session
\* state is left alone: the graders write nothing to it.
C16_LoopLeavesStateAlone ==
    [][(pc["LoopOverQuestions"] = "running" /\ pc'["LoopOverQuestions"] = "running")
         => state' = state]_vars

\* A model invocation opens in this step.
Opens(before, after) == before.status # "pending" /\ after.status = "pending"

\* C17: every invocation of the model opens with no attempt used, whatever the
\* other invocations have used, and an invocation that ends in a terminal
\* failure leaves the other questions' invocations as they are.
C17_BudgetPerInvocation ==
    [][/\ Opens(call, call') => call'.made = 0
       /\ \A i \in 1..NumQuestions :
             /\ Opens(item[i].call, item'[i].call) => item'[i].call.made = 0
             /\ Opens(item[i].tcall, item'[i].tcall) => item'[i].tcall.made = 0
             /\ (item[i].pc # "failed" /\ item'[i].pc = "failed") =>
                   \A j \in 1..NumQuestions : j # i => item'[j] = item[j]]_vars

\* C17 witness: the grader of question 2 has just been invoked, with no
\* attempt used, while the grader of question 1 has used 4 of its 5.
C17_Witness ==
    /\ NumQuestions >= 2
    /\ item[1].call.status = "pending" /\ item[1].call.made = 4
    /\ item[2].call.status = "pending" /\ item[2].call.made = 0

\* C18: a question's grader, once invoked, is not invoked again; its answer
\* stays as returned; when the loop has returned every question has been
\* answered; and once referee_report is set no grader takes a step.
C18_GradedOncePerQuestion ==
    /\ [](pc["LoopOverQuestions"] = "done" =>
            \A i \in 1..NumQuestions : item[i].pc = "done")
    /\ [][/\ \A i \in 1..NumQuestions :
                /\ item[i].pc # "idle" => item'[i].pc # "idle"
                /\ item[i].pc = "done" => item'[i] = item[i]
          /\ has("referee_report") => item' = item]_vars

\* C18 witness: the run went on to the aggregator after a report that is not
\* ok on two questions, each out of bounds.
C18_Witness ==
    /\ NumQuestions = 2
    /\ state["referee_report"].kind = "report"
    /\ ~state["referee_report"].ok
    /\ Len(state["referee_report"].issues) = 2
    /\ pc["FinalAggregator"] # "idle"

\* C19: when an agent is invoked every input slot it declares is there: it
\* was part of the run input or written by a stage that ran before (so it is
\* set), or it is the loop's binding of the current question, or the optional
\* human decision.
C19_SlotGraphClosed ==
    LET Bound == {"question", "student_answer"}
        Closed(a) ==
            \A k \in input_keys(a) :
                has(k) \/ k = "human_decision" \/ (a = sub_agent /\ k \in Bound)
    IN  /\ \A s \in Stages : Started(s) => Closed(s)
        /\ \A i \in 1..NumQuestions : item[i].pc # "idle" => Closed(sub_agent)

\* The positions of text where a non-blank line has its first non-blank
\* character, and where the line that starts at p has its last one.
LineStarts(t) ==
    { p \in 1..Len(t) :
        /\ t[p] \notin {" ", "\n"}
        /\ \A q \in 1..(p - 1) :
              (\A r \in q..(p - 1) : t[r] # "\n") => t[q] = " " }

LineEnd(t, p) ==
    CHOOSE e \in p..Len(t) :
        /\ t[e] \notin {" ", "\n"}
        /\ \A r \in p..e : t[r] # "\n"
        /\ \A r \in (e + 1)..Len(t) :
              (\A x \in e..r : t[x] # "\n") => t[r] = " "

NthStart(t, n) ==
    CHOOSE p \in LineStarts(t) :
        Cardinality({ q \in LineStarts(t) : q <= p }) = n

\* C20: parse_questions returns ok, a count equal to the number of questions,
\* and one question per non-blank line in input order: the k-th non-blank
\* line, stripped, with question_id q<k>; blank lines take no identifier.
C20_OneQuestionPerNonBlankLine ==
    parsed # NotCalled =>
        /\ parsed.ok
        /\ parsed.count = Len(parsed.questions)
        /\ Len(parsed.questions) = Cardinality(LineStarts(text))
        /\ \A k \in 1..Len(parsed.questions) :
              /\ parsed.questions[k].question_id = << "q", k >>
              /\ parsed.questions[k].text =
                    SubSeq(text, NthStart(text, k), LineEnd(text, NthStart(text, k)))

\* C20 witness: two non-blank lines with an empty line between them.
C20_Witness ==
    /\ parsed # NotCalled
    /\ text = << "a", "\n", "\n", "b" >>
    /\ parsed.count = 2
    /\ parsed.questions[2].question_id = << "q", 2 >>

====
